---------------------------- MODULE Spec2Model ----------------------------
(***************************************************************************)
(* A model of runtests.py, the watchman test driver.                       *)
(*                                                                         *)
(* Strings are sequences of one-character strings, so that str.replace,    *)
(* str.split, str.startswith, str.endswith and the os.path functions are   *)
(* computed character by character, as Python computes them.               *)
(***************************************************************************)
EXTENDS Naturals, Sequences, FiniteSets, TLC

(***************************************************************************)
(* Bounds of the model.                                                    *)
(***************************************************************************)
\* longest positional `files` list the parser is given
MaxFiles == 2
\* longest --method list the parser is given
MaxMethods == 1
\* largest suite whose run is explored
MaxUnits == 2
\* most addError notifications one test gets after its first outcome
\* (tearDown and the cleanups may each raise)
MaxExtraErrors == 1

(***************************************************************************)
(* Python str operations.                                                  *)
(***************************************************************************)
StartsWith(s, pre) ==
    /\ Len(pre) <= Len(s)
    /\ SubSeq(s, 1, Len(pre)) = pre

EndsWith(s, suf) ==
    /\ Len(suf) <= Len(s)
    /\ SubSeq(s, Len(s) - Len(suf) + 1, Len(s)) = suf

\* str.replace(old, new): every non-overlapping occurrence, left to right
RECURSIVE Replace(_, _, _)
Replace(s, old, new) ==
    IF Len(s) < Len(old) THEN s
    ELSE IF SubSeq(s, 1, Len(old)) = old
         THEN new \o Replace(SubSeq(s, Len(old) + 1, Len(s)), old, new)
         ELSE <<s[1]>> \o Replace(Tail(s), old, new)

\* str.split(ch): the pieces between the occurrences of ch, empty ones kept
RECURSIVE SplitFrom(_, _, _)
SplitFrom(s, ch, cur) ==
    IF s = <<>> THEN <<cur>>
    ELSE IF s[1] = ch
         THEN <<cur>> \o SplitFrom(Tail(s), ch, <<>>)
         ELSE SplitFrom(Tail(s), ch, Append(cur, s[1]))

Split(s, ch) == SplitFrom(s, ch, <<>>)

\* list.pop() of a non-empty list: its last element
Pop(l) == l[Len(l)]

\* '/'.join(comps)
RECURSIVE JoinSep(_)
JoinSep(comps) ==
    IF comps = <<>> THEN <<>>
    ELSE IF Len(comps) = 1 THEN comps[1]
         ELSE comps[1] \o <<"/">> \o JoinSep(Tail(comps))

(***************************************************************************)
(* The names used by the program and by the file system it runs on.        *)
(***************************************************************************)
n_python      == <<"p", "y", "t", "h", "o", "n">>
n_tests       == <<"t", "e", "s", "t", "s">>
n_integration == <<"i", "n", "t", "e", "g", "r", "a", "t", "i", "o", "n">>
n_sub         == <<"s", "u", "b">>
n_empty       == <<"e", "m", "p", "t", "y">>
n_hid         == <<"h", "i", "d">>
n_nosuch      == <<"n", "o", "s", "u", "c", "h">>
f_test_a_py   == <<"t", "e", "s", "t", "_", "a", ".", "p", "y">>
f_test_c_py   == <<"t", "e", "s", "t", "_", "c", ".", "p", "y">>
f_test_e_py   == <<"t", "e", "s", "t", "_", "e", ".", "p", "y">>
f_hidden      == <<".", "h", "i", "d", "d", "e", "n">>
f_d_php       == <<"d", ".", "p", "h", "p">>
f_b_t         == <<"b", ".", "t">>
f_x_pyc_t     == <<"x", ".", "p", "y", "c", ".", "t">>
ext_py        == <<".", "p", "y">>
ext_pyc       == <<".", "p", "y", "c">>
ext_t         == <<".", "t">>
ext_php       == <<".", "p", "h", "p">>
m_tx          == <<"t", "x">>
m_ty          == <<"t", "y">>

Slash(a, b) == a \o <<"/">> \o b

\* the two discovery roots of the loader and the two globs of the tap tests
d_python_tests      == Slash(n_python, n_tests)
d_tests_integration == Slash(n_tests, n_integration)

\* os.getcwd(), as path components
CwdComps == << <<"w">> >>

(***************************************************************************)
(* The file system the program reads: each directory below the working     *)
(* directory, by its path relative to it, with its listing in the order    *)
(* os.listdir gives it.                                                    *)
(***************************************************************************)
RootKey == <<".">>

Tree ==
    (RootKey :> [dirs |-> <<n_python, n_tests, n_empty, n_hid>>, files |-> <<>>])
    @@ (n_python :> [dirs |-> <<n_tests>>, files |-> <<>>])
    @@ (d_python_tests :> [dirs |-> <<>>, files |-> <<f_test_a_py>>])
    @@ (n_tests :> [dirs |-> <<n_integration>>, files |-> <<f_b_t, f_x_pyc_t>>])
    @@ (d_tests_integration :>
            [dirs |-> <<n_sub>>, files |-> <<f_test_c_py, f_hidden, f_d_php>>])
    @@ (Slash(d_tests_integration, n_sub) :>
            [dirs |-> <<>>, files |-> <<f_test_e_py>>])
    @@ (n_empty :> [dirs |-> <<>>, files |-> <<>>])
    @@ (n_hid :> [dirs |-> <<>>, files |-> <<f_hidden>>])


(***************************************************************************)
(* os.path on that file system (posixpath).                                *)
(***************************************************************************)
IsAbs(p) == StartsWith(p, <<"/">>)

\* one step of posixpath.normpath on an absolute path: '' and '.' are
\* dropped, '..' removes the component before it (and is dropped at the root)
NormStep(stack, c) ==
    IF c = <<>> \/ c = <<".">> THEN stack
    ELSE IF c = <<".", ".">>
         THEN IF stack = <<>> THEN stack ELSE SubSeq(stack, 1, Len(stack) - 1)
         ELSE Append(stack, c)

RECURSIVE NormFrom(_, _)
NormFrom(stack, comps) ==
    IF comps = <<>> THEN stack
    ELSE NormFrom(NormStep(stack, comps[1]), Tail(comps))

\* os.path.abspath(p), as the components of normpath(join(getcwd(), p))
AbsComps(p) ==
    IF IsAbs(p) THEN NormFrom(<<>>, Split(p, "/"))
    ELSE NormFrom(CwdComps, Split(p, "/"))

RECURSIVE CommonPrefixLen(_, _)
CommonPrefixLen(a, b) ==
    IF a = <<>> \/ b = <<>> THEN 0
    ELSE IF a[1] = b[1] THEN 1 + CommonPrefixLen(Tail(a), Tail(b))
         ELSE 0

\* os.path.relpath(p): p relative to the working directory
RelPath(p) ==
    LET path_list == AbsComps(p)
        i         == CommonPrefixLen(CwdComps, path_list)
        rel_list  == [k \in 1..(Len(CwdComps) - i) |-> <<".", ".">>]
                       \o SubSeq(path_list, i + 1, Len(path_list))
    IN  IF rel_list = <<>> THEN <<".">> ELSE JoinSep(rel_list)

\* os.path.join(a, b)
OsPathJoin(a, b) ==
    IF IsAbs(b) THEN b
    ELSE IF a = <<>> \/ EndsWith(a, <<"/">>) THEN a \o b
         ELSE a \o <<"/">> \o b

\* os.path.isdir(g): g names a directory of the file system
IsDir(g) == g # <<>> /\ RelPath(g) \in DOMAIN Tree

\* a filter that lets every name through
IsHidden_Never(f) == FALSE

\* f.startswith('.')
IsHidden(f) == StartsWith(f, <<".">>)

\* the res.append calls of the os.walk loop for one directory selector:
\* top-down, the files of a directory before its subdirectories
RECURSIVE WalkAppend(_)
WalkAppend(dirname) ==
    LET l == Tree[RelPath(dirname)]
        RECURSIVE OfFiles(_)
        OfFiles(files) ==
            IF files = <<>> THEN <<>>
            ELSE (IF ~IsHidden(files[1])
                  THEN <<OsPathJoin(dirname, files[1])>>
                  ELSE <<>>) \o OfFiles(Tail(files))
        RECURSIVE OfDirs(_)
        OfDirs(dirs) ==
            IF dirs = <<>> THEN <<>>
            ELSE WalkAppend(OsPathJoin(dirname, dirs[1])) \o OfDirs(Tail(dirs))
    IN  OfFiles(l.files) \o OfDirs(l.dirs)

(***************************************************************************)
(* What the test framework finds in the discovery roots.                   *)
(***************************************************************************)
p_test_a   == Slash(d_python_tests, f_test_a_py)
p_test_c   == Slash(d_tests_integration, f_test_c_py)
p_x_pyc_t  == Slash(n_tests, f_x_pyc_t)

\* for d in ['python/tests', 'tests/integration']
DiscoverRoots == <<d_python_tests, d_tests_integration>>

\* the test case classes of each test module, and the method names
\* unittest.TestLoader.getTestCaseNames gives for them, in its order
ModuleClasses ==
    (p_test_a :> << [cls |-> <<"A">>, names |-> <<m_tx, m_ty>>] >>)
    @@ (p_test_c :> << [cls |-> <<"C">>, names |-> <<m_tx>>] >>)

\* the modules loader.discover(d, top_level_dir=d) loads, in its order: the
\* files test*.py of d (sub has no __init__.py and is not descended into)
RECURSIVE ModulesIn(_, _)
ModulesIn(d, files) ==
    IF files = <<>> THEN <<>>
    ELSE (IF StartsWith(files[1], <<"t", "e", "s", "t">>)
             /\ EndsWith(files[1], ext_py)
          THEN <<Slash(d, files[1])>>
          ELSE <<>>) \o ModulesIn(d, Tail(files))

\* the modules of both roots, in the order the loop of discover calls loads them
ModuleQueue ==
    ModulesIn(DiscoverRoots[1], Tree[DiscoverRoots[1]].files)
        \o ModulesIn(DiscoverRoots[2], Tree[DiscoverRoots[2]].files)

\* module.__file__: the absolute path of the source, or of its compiled form
\* when the module was loaded from one
ModuleFile(m, compiled) ==
    <<"/">> \o JoinSep(CwdComps) \o <<"/">> \o m \o (IF compiled THEN <<"c">> ELSE <<>>)

\* glob.glob(d + '/*' + ext): the files of d with that ending, '*' matching no
\* leading dot
RECURSIVE GlobIn(_, _, _)
GlobIn(d, ext, files) ==
    IF files = <<>> THEN <<>>
    ELSE (IF EndsWith(files[1], ext) /\ ~StartsWith(files[1], <<".">>)
          THEN <<Slash(d, files[1])>>
          ELSE <<>>) \o GlobIn(d, ext, Tail(files))

(***************************************************************************)
(* The command line.                                                       *)
(***************************************************************************)
\* the positional arguments the model gives the parser
Selectors ==
    { d_tests_integration,     \* a directory with a hidden file and a subdirectory
      p_test_a,                \* a test module
      p_x_pyc_t,               \* a tap test whose name holds '.pyc'
      n_hid,                   \* a directory holding only a hidden file
      n_empty,                 \* an empty directory
      n_nosuch }               \* no such path

\* the --method arguments the model gives the parser
MethodNames == {m_tx, m_ty}

SeqsUpTo(S, n) == UNION {[1..k -> S] : k \in 0..n}

VARIABLES
    argv,        \* the positional arguments as given (sys.argv), never changed
    args,        \* the parsed command line: files, method, keep
    pc,          \* where the script is
    tempDir,     \* the temp root: "none", "exists" or "deleted"
    atexitFns,   \* the functions registered with atexit, in order
    inst,        \* the shared watchman instance: "none", "running", "stopped"
    dpos,        \* the module of ModuleQueue the loader is at
    imported,    \* the modules the loader has imported, with their __file__
    suite,       \* the aggregated suite: its test units, in order
    result,      \* the Result object of the run
    cur,         \* the unit of the suite the runner is at
    delivered,   \* per unit, the notifications Result has been given for it
    out,         \* the lines written to stdout by Result
    called,      \* the interrupt handler has seen a first SIGINT
    exitPath,    \* how the script ended: "none", "normal", "error", "interrupt"
    exitStatus,  \* the exit status of the process
    teardown     \* how often each teardown step has run

vars == <<argv, args, pc, tempDir, atexitFns, inst, dpos, imported, suite, result,
          cur, delivered, out, called, exitPath, exitStatus, teardown>>

(***************************************************************************)
(* expandFilesList and the two inclusion predicates.                       *)
(***************************************************************************)
\* the body of `for g in args.files`
ExpandOne(g) == IF IsDir(g) THEN WalkAppend(g) ELSE <<g>>

RECURSIVE ExpandFrom(_)
ExpandFrom(gs) ==
    IF gs = <<>> THEN <<>> ELSE ExpandOne(gs[1]) \o ExpandFrom(Tail(gs))

\* expandFilesList(files): the loop is over args.files, not over the parameter
expandFilesList(files) == ExpandFrom(args.files)

InList(x, l) == \E i \in 1..Len(l) : l[i] = x

\* fname = os.path.relpath(filename.replace('.pyc', '.py'))
Fname(filename) == RelPath(Replace(filename, ext_pyc, ext_py))

shouldIncludeTestFile(filename) ==
    IF args.files # <<>> THEN InList(Fname(filename), args.files)
    ELSE IF args.method # <<>> /\ ~EndsWith(Fname(filename), ext_py) THEN FALSE
    ELSE TRUE

\* the name compared as a whole, not split at its dots
shouldIncludeTestName_Whole(name) ==
    IF args.method # <<>> THEN InList(name, args.method)
    ELSE TRUE

shouldIncludeTestName(name) ==
    IF args.method # <<>> THEN InList(Pop(Split(name, ".")), args.method)
    ELSE TRUE

(***************************************************************************)
(* class Loader.                                                           *)
(***************************************************************************)
\* Loader.getTestCaseNames: filter(shouldIncludeTestName, names)
getTestCaseNames(names) == SelectSeq(names, shouldIncludeTestName)

\* the units of one test case class of module m
UnitsOfClass(m, c) ==
    LET names == getTestCaseNames(c.names)
    IN  [i \in 1..Len(names) |->
            [kind |-> "native", file |-> m, cls |-> c.cls, name |-> names[i]]]

RECURSIVE UnitsOfClasses(_, _)
UnitsOfClasses(m, cs) ==
    IF cs = <<>> THEN <<>>
    ELSE UnitsOfClass(m, cs[1]) \o UnitsOfClasses(m, Tail(cs))

\* Loader.loadTestsFromModule(module), module being m loaded as file
loadTestsFromModule(m, file) ==
    IF ~shouldIncludeTestFile(file) THEN <<>>
    ELSE UnitsOfClasses(m, ModuleClasses[m])

\* WatchmanTapTests.discover(shouldIncludeTestFile, d/*ext): one unit per
\* matched file the predicate accepts
RECURSIVE TapUnits(_)
TapUnits(paths) ==
    IF paths = <<>> THEN <<>>
    ELSE (IF shouldIncludeTestFile(paths[1])
          THEN << [kind |-> "tap", file |-> paths[1], cls |-> paths[1],
                   name |-> paths[1]] >>
          ELSE <<>>) \o TapUnits(Tail(paths))

(***************************************************************************)
(* The script up to the run: lines 40-185.                                 *)
(***************************************************************************)
NewResult ==
    [startTime |-> <<>>, testsRun |-> 0, shouldStop |-> FALSE,
     failures |-> <<>>, errors |-> <<>>, skipped |-> <<>>,
     expectedFailures |-> <<>>, unexpectedSuccesses |-> <<>>]

\* after args = parser.parse_args() and unittest.installHandler()
Init ==
    /\ args \in [files : SeqsUpTo(Selectors, MaxFiles),
                 method : SeqsUpTo(MethodNames, MaxMethods),
                 keep : BOOLEAN]
    /\ argv = args.files
    /\ pc = "setup"
    /\ tempDir = "none"
    /\ atexitFns = <<>>
    /\ inst = "none"
    /\ dpos = 1
    /\ imported = {}
    /\ suite = <<>>
    /\ result = NewResult
    /\ cur = 1
    /\ delivered = <<>>
    /\ out = <<>>
    /\ called = FALSE
    /\ exitPath = "none"
    /\ exitStatus = <<>>
    /\ teardown = [rmtree |-> 0, preserving |-> 0, stop |-> 0]

\* the removal registered whatever --keep says
AtexitFn_AlwaysRmtree(keep) == "rmtree"

\* the function the script registers with atexit
AtexitFn(keep) == IF keep THEN "write_preserving" ELSE "rmtree"

\* temp_dir = mkdtemp(...); atexit.register(...); tempfile.tempdir = temp_dir
Setup ==
    /\ pc = "setup"
    /\ tempDir' = "exists"
    /\ atexitFns' = Append(atexitFns, AtexitFn(args.keep))
    /\ pc' = "inst"
    /\ UNCHANGED <<argv, args, inst, dpos, imported, suite, result, cur, delivered,
                   out, called, exitPath, exitStatus, teardown>>

\* an exception nobody catches ends the script: the traceback, exit status 1
Raise(path) ==
    /\ pc' = "exiting"
    /\ exitPath' = path
    /\ exitStatus' = <<1>>

\* inst = WatchmanInstance.Instance(); inst.start(): the instance runs, or
\* start raises
InstStart ==
    /\ pc = "inst"
    /\ \/ /\ inst' = "running"
          /\ pc' = "expand"
          /\ UNCHANGED <<exitPath, exitStatus>>
       \/ /\ Raise("error")
          /\ UNCHANGED inst
    /\ UNCHANGED <<argv, args, tempDir, atexitFns, dpos, imported, suite, result,
                   cur, delivered, out, called, teardown>>

\* if args.files: args.files = expandFilesList(args.files)
ExpandArgs ==
    /\ pc = "expand"
    /\ args' = IF args.files # <<>>
               THEN [args EXCEPT !.files = expandFilesList(args.files)]
               ELSE args
    /\ pc' = "discover"
    /\ UNCHANGED <<argv, tempDir, atexitFns, inst, dpos, imported, suite,
                   result, cur, delivered, out, called, exitPath, exitStatus,
                   teardown>>

\* one module of suite.addTests(loader.discover(d, top_level_dir=d)): the
\* framework imports the module, then hands it to Loader.loadTestsFromModule
DiscoverModule ==
    /\ pc = "discover"
    /\ \E compiled \in BOOLEAN :
          LET m    == ModuleQueue[dpos]
              file == ModuleFile(m, compiled)
          IN  /\ imported' = imported \cup {[mod |-> m, file |-> file]}
              /\ suite' = suite \o loadTestsFromModule(m, file)
    /\ dpos' = dpos + 1
    /\ pc' = IF dpos = Len(ModuleQueue) THEN "tap_t" ELSE "discover"
    /\ UNCHANGED <<argv, args, tempDir, atexitFns, inst, result, cur, delivered,
                   out, called, exitPath, exitStatus, teardown>>

\* suite.addTests(WatchmanTapTests.discover(shouldIncludeTestFile, 'tests/*.t'))
TapDiscoverT ==
    /\ pc = "tap_t"
    /\ suite' = suite \o TapUnits(GlobIn(n_tests, ext_t, Tree[n_tests].files))
    /\ pc' = "tap_php"
    /\ UNCHANGED <<argv, args, tempDir, atexitFns, inst, dpos, imported, result,
                   cur, delivered, out, called, exitPath, exitStatus, teardown>>

\* suite.addTests(WatchmanTapTests.discover(shouldIncludeTestFile,
\*                                          'tests/integration/*.php'))
TapDiscoverPhp ==
    /\ pc = "tap_php"
    /\ suite' = suite \o TapUnits(GlobIn(d_tests_integration, ext_php,
                                         Tree[d_tests_integration].files))
    /\ pc' = "ready"
    /\ UNCHANGED <<argv, args, tempDir, atexitFns, inst, dpos, imported, result,
                   cur, delivered, out, called, exitPath, exitStatus, teardown>>

NextSel ==
    \/ Setup
    \/ InstStart
    \/ ExpandArgs
    \/ DiscoverModule
    \/ TapDiscoverT
    \/ TapDiscoverPhp

\* the script from its start to the aggregated suite, for every command line
Spec == Init /\ [][NextSel]_vars

(***************************************************************************)
(* class Result(unittest.TestResult).                                      *)
(*                                                                         *)
(* A test is named by the place of its unit in the suite; the _ErrorHolder *)
(* the framework reports a failed class fixture with is named by the place *)
(* of the first unit of that class.  startTime is <<>> while the attribute *)
(* does not exist, and <<i>> when the startTest of unit i has set it.      *)
(***************************************************************************)
T(i)      == [holder |-> FALSE, idx |-> i]
Holder(i) == [holder |-> TRUE, idx |-> i]

\* a printed status line: elapsed is time.time() - self.startTime
Line(tok, test) == [tok |-> tok, test |-> test, since |-> result.startTime]

\* Result.startTest
startTest(i) == [result EXCEPT !.startTime = <<i>>, !.testsRun = @ + 1]

\* the print of Result.addSuccess
PrintPass(test) == Append(out, Line("PASS", test))

\* a skip that prints nothing
PrintSkip_Silent(test) == out

\* the print of Result.addSkip
PrintSkip(test) == Append(out, Line("SKIP", test))

\* Result.__printFail
PrintFail(test) == Append(out, Line("FAIL", test))

\* super().addSkip / addFailure / addError / addExpectedFailure: the lists of
\* unittest.TestResult
Tally(field, test) == [result EXCEPT ![field] = Append(@, test)]

(***************************************************************************)
(* unittest.TextTestRunner(resultclass=Result, ...).run(suite): lines      *)
(* 187-190.  The runner and the tests are the environment: it gives Result *)
(* the notifications unittest.TestCase.run and unittest.TestSuite.run      *)
(* give: startTest, then addSuccess, or one of addSkip, addFailure,        *)
(* addError and addExpectedFailure followed by an addError for each of     *)
(* tearDown and the cleanups that raises, then stopTest; and addError for  *)
(* a class whose setUpClass raises, with no startTest.                     *)
(***************************************************************************)
Deliver(note) == delivered' = [delivered EXCEPT ![cur] = Append(@, note)]

\* the runner is inside unit cur and has reported no outcome of it yet
FirstOutcomeDue ==
    /\ pc = "run"
    /\ cur <= Len(suite)
    /\ delivered[cur] = <<"startTest">>

\* tearDown or a cleanup of unit cur may still raise
ExtraErrorDue ==
    /\ pc = "run"
    /\ cur <= Len(suite)
    /\ Len(delivered[cur]) >= 2
    /\ delivered[cur][2] # "addSuccess"
    /\ Len(delivered[cur]) < 2 + MaxExtraErrors

\* the runner makes the Result and registers it with the interrupt handler
RunStart ==
    /\ pc = "ready"
    /\ Len(suite) <= MaxUnits
    /\ pc' = "run"
    /\ result' = NewResult
    /\ cur' = 1
    /\ delivered' = [i \in 1..Len(suite) |-> <<>>]
    /\ UNCHANGED <<argv, args, tempDir, atexitFns, inst, dpos, imported, suite,
                   out, called, exitPath, exitStatus, teardown>>

RunnerStartTest ==
    /\ pc = "run"
    /\ cur <= Len(suite)
    /\ delivered[cur] = <<>>
    /\ ~result.shouldStop
    /\ result' = startTest(cur)
    /\ Deliver("startTest")
    /\ UNCHANGED <<argv, args, pc, tempDir, atexitFns, inst, dpos, imported,
                   suite, cur, out, called, exitPath, exitStatus, teardown>>

\* Result.addSuccess: unittest.TestResult.addSuccess keeps no list
AddSuccess ==
    /\ FirstOutcomeDue
    /\ out' = PrintPass(T(cur))
    /\ Deliver("addSuccess")
    /\ UNCHANGED <<argv, args, pc, tempDir, atexitFns, inst, dpos, imported,
                   suite, result, cur, called, exitPath, exitStatus, teardown>>

\* Result.addSkip
AddSkip ==
    /\ FirstOutcomeDue
    /\ result' = Tally("skipped", T(cur))
    /\ out' = PrintSkip(T(cur))
    /\ Deliver("addSkip")
    /\ UNCHANGED <<argv, args, pc, tempDir, atexitFns, inst, dpos, imported,
                   suite, cur, called, exitPath, exitStatus, teardown>>

\* Result.addFailure
AddFailure ==
    /\ FirstOutcomeDue
    /\ out' = PrintFail(T(cur))
    /\ result' = Tally("failures", T(cur))
    /\ Deliver("addFailure")
    /\ UNCHANGED <<argv, args, pc, tempDir, atexitFns, inst, dpos, imported,
                   suite, cur, called, exitPath, exitStatus, teardown>>

\* Result.addError for the test the runner is in
AddError ==
    /\ FirstOutcomeDue \/ ExtraErrorDue
    /\ out' = PrintFail(T(cur))
    /\ result' = Tally("errors", T(cur))
    /\ Deliver("addError")
    /\ UNCHANGED <<argv, args, pc, tempDir, atexitFns, inst, dpos, imported,
                   suite, cur, called, exitPath, exitStatus, teardown>>

\* addExpectedFailure, which Result inherits as it is
AddExpectedFailure ==
    /\ FirstOutcomeDue
    /\ result' = Tally("expectedFailures", T(cur))
    /\ Deliver("addExpectedFailure")
    /\ UNCHANGED <<argv, args, pc, tempDir, atexitFns, inst, dpos, imported,
                   suite, cur, out, called, exitPath, exitStatus, teardown>>

\* stopTest, which Result inherits as it is; the runner goes to the next unit
StopTest ==
    /\ pc = "run"
    /\ cur <= Len(suite)
    /\ Len(delivered[cur]) >= 2
    /\ cur' = cur + 1
    /\ UNCHANGED <<argv, args, pc, tempDir, atexitFns, inst, dpos, imported,
                   suite, result, delivered, out, called, exitPath, exitStatus,
                   teardown>>

\* the first unit after unit i that is of another class
RECURSIVE AfterClass(_, _)
AfterClass(i, cls) ==
    IF i <= Len(suite) /\ suite[i].cls = cls THEN AfterClass(i + 1, cls) ELSE i

\* setUpClass of the class of unit cur raises: Result.addError is called for
\* an _ErrorHolder, no startTest before it, and the units of the class are
\* not run.  self.startTime is read: when no test has started yet the
\* attribute does not exist and the AttributeError ends the run.
ClassSetUpError ==
    /\ pc = "run"
    /\ cur <= Len(suite)
    /\ delivered[cur] = <<>>
    /\ ~result.shouldStop
    /\ IF cur = 1 THEN TRUE ELSE suite[cur - 1].cls # suite[cur].cls
    /\ IF result.startTime = <<>>
       THEN /\ Raise("attribute_error")
            /\ UNCHANGED <<result, out, cur>>
       ELSE /\ out' = PrintFail(Holder(cur))
            /\ result' = Tally("errors", Holder(cur))
            /\ cur' = AfterClass(cur, suite[cur].cls)
            /\ UNCHANGED <<pc, exitPath, exitStatus>>
    /\ UNCHANGED <<argv, args, tempDir, atexitFns, inst, dpos, imported, suite,
                   delivered, called, teardown>>

(***************************************************************************)
(* unittest.installHandler(): line 45.                                     *)
(***************************************************************************)
\* where a SIGINT finds the script between setup and the end of the run
Interruptible == {"inst", "expand", "discover", "tap_t", "tap_php", "ready", "run"}

\* the first SIGINT: the handler stops the registered results
SigintFirst ==
    /\ pc \in Interruptible
    /\ ~called
    /\ called' = TRUE
    /\ result' = IF pc = "run" THEN [result EXCEPT !.shouldStop = TRUE] ELSE result
    /\ UNCHANGED <<argv, args, pc, tempDir, atexitFns, inst, dpos, imported,
                   suite, cur, delivered, out, exitPath, exitStatus, teardown>>

\* a later SIGINT: the handler calls the default one, KeyboardInterrupt is
\* raised where the script is
SigintSecond ==
    /\ pc \in Interruptible
    /\ called
    /\ Raise("interrupt")
    /\ UNCHANGED <<argv, args, tempDir, atexitFns, inst, dpos, imported, suite,
                   result, cur, delivered, out, called, teardown>>

\* that KeyboardInterrupt raised inside a notification, between its print
\* and its super() call: addSkip has listed the test and not printed,
\* addFailure and addError have printed and not listed
SigintInNotification ==
    /\ called
    /\ \/ /\ FirstOutcomeDue
          /\ result' = Tally("skipped", T(cur))
          /\ UNCHANGED out
       \/ /\ FirstOutcomeDue \/ ExtraErrorDue
          /\ out' = PrintFail(T(cur))
          /\ UNCHANGED result
    /\ Raise("interrupt")
    /\ UNCHANGED <<argv, args, tempDir, atexitFns, inst, dpos, imported, suite,
                   cur, delivered, called, teardown>>

(***************************************************************************)
(* The end of the script and of the process.                               *)
(***************************************************************************)
\* run(suite) returns: every unit has run, or the result was stopped.  The
\* script ends there; what run returns is not used
RunDone ==
    /\ pc = "run"
    /\ \/ cur > Len(suite)
       \/ cur <= Len(suite) /\ result.shouldStop /\ delivered[cur] = <<>>
    /\ pc' = "exiting"
    /\ exitPath' = "normal"
    /\ exitStatus' = <<0>>
    /\ UNCHANGED <<argv, args, tempDir, atexitFns, inst, dpos, imported, suite,
                   result, cur, delivered, out, called, teardown>>

HowMany(fns, fn) == Cardinality({i \in 1..Len(fns) : fns[i] = fn})

PreservingLine == [tok |-> "Preserving", test |-> Holder(0), since |-> <<>>]

\* the interpreter runs the functions registered with atexit, each once
AtExit ==
    /\ pc = "exiting"
    /\ tempDir' = IF HowMany(atexitFns, "rmtree") > 0 THEN "deleted" ELSE tempDir
    /\ out' = out \o [i \in 1..HowMany(atexitFns, "write_preserving")
                        |-> PreservingLine]
    /\ teardown' = [teardown EXCEPT
                      !.rmtree = @ + HowMany(atexitFns, "rmtree"),
                      !.preserving = @ + HowMany(atexitFns, "write_preserving")]
    /\ pc' = "finalizing"
    /\ UNCHANGED <<argv, args, atexitFns, inst, dpos, imported, suite, result,
                   cur, delivered, called, exitPath, exitStatus>>

\* WatchmanInstance.Instance: the instance that was started is stopped when
\* the process ends
InstFinalize ==
    /\ pc = "finalizing"
    /\ inst' = IF inst = "running" THEN "stopped" ELSE inst
    /\ teardown' = [teardown EXCEPT
                      !.stop = IF inst = "running" THEN @ + 1 ELSE @]
    /\ pc' = "exited"
    /\ UNCHANGED <<argv, args, tempDir, atexitFns, dpos, imported, suite,
                   result, cur, delivered, out, called, exitPath, exitStatus>>

NextRun ==
    \/ NextSel
    \/ RunStart
    \/ RunnerStartTest
    \/ AddSuccess
    \/ AddSkip
    \/ AddFailure
    \/ AddError
    \/ AddExpectedFailure
    \/ StopTest
    \/ ClassSetUpError
    \/ SigintFirst
    \/ SigintSecond
    \/ SigintInNotification
    \/ RunDone
    \/ AtExit
    \/ InstFinalize

\* a command line that names no file, or the one test module test_a.py
InitRun ==
    /\ Init
    /\ args.files \in {<<>>, <<p_test_a>>}

\* the whole script, from its start to the end of the process, for those
\* command lines
SpecRun == InitRun /\ [][NextRun]_vars

(***************************************************************************)
(* The paths and names the predicates are asked about.                     *)
(***************************************************************************)
\* the paths the loader and the tap discoverers pass to shouldIncludeTestFile,
\* and other spellings of them
ProbePaths ==
    {ModuleFile(ModuleQueue[i], c) : i \in 1..Len(ModuleQueue), c \in BOOLEAN}
    \cup {Slash(n_tests, f_b_t), p_x_pyc_t, Slash(d_tests_integration, f_d_php)}
    \cup {p_test_a, p_test_a \o <<"c">>,
          Slash(n_tests, f_test_a_py),            \* same basename, other directory
          Slash(<<".">>, p_test_a),               \* ./python/tests/test_a.py
          Slash(Slash(n_empty, <<".", ".">>), p_test_c),
          <<"/">> \o p_test_a}                    \* outside the working directory

\* the names shouldIncludeTestName is asked about
ProbeNames ==
    {m_tx, m_ty, <<"t", "z">>,
     <<"A", ".">> \o m_tx, <<"C", ".">> \o m_ty,
     <<"m", ".", "A", ".">> \o m_tx,
     m_tx \o <<".", "A">>, m_tx \o <<".">>, <<>>}

\* the script has passed `if args.files: args.files = expandFilesList(...)`
\* and is discovering or running the tests
Expanded == pc \in {"discover", "tap_t", "tap_php", "ready", "run"}

(***************************************************************************)
(* C2                                                                      *)
(***************************************************************************)
\* the compiled-artifact suffix stripped: a trailing '.pyc' becomes '.py'
StripCompiledSuffix(p) ==
    IF EndsWith(p, ext_pyc) THEN SubSeq(p, 1, Len(p) - 1) ELSE p

RefNormalized(p) == RelPath(StripCompiledSuffix(p))

RefIncludeFile(p) ==
    IF args.files # <<>> THEN \E i \in 1..Len(args.files) : args.files[i] = RefNormalized(p)
    ELSE IF args.method # <<>> THEN EndsWith(RefNormalized(p), ext_py)
    ELSE TRUE

\* C2: for every path p and every selection, shouldIncludeTestFile(p) is the
\* reference decision on p with its compiled-artifact suffix stripped and made
\* relative to the working directory: membership in files when files is
\* non-empty, else the '.py' ending when methods is non-empty, else true.
C2_FileDecisionIsReference ==
    Expanded => \A p \in ProbePaths : shouldIncludeTestFile(p) = RefIncludeFile(p)

(***************************************************************************)
(* C3                                                                      *)
(***************************************************************************)
\* the part of q after its last dot (all of q when it has none)
LastComponent(q) ==
    LET dots == {i \in 1..Len(q) : q[i] = "."}
        last == IF dots = {} THEN 0
                ELSE CHOOSE i \in dots : \A j \in dots : j <= i
    IN  SubSeq(q, last + 1, Len(q))

RefIncludeName(q) ==
    args.method = <<>> \/ LastComponent(q) \in {args.method[i] : i \in 1..Len(args.method)}

\* the units of the suite that come from module m, in suite order
UnitsFrom(m) == SelectSeq(suite, LAMBDA u : u.kind = "native" /\ u.file = m)

\* the method names of module m the reference keeps, in the framework's order
RECURSIVE RefKeptNames(_)
RefKeptNames(cs) ==
    IF cs = <<>> THEN <<>>
    ELSE SelectSeq(cs[1].names, RefIncludeName) \o RefKeptNames(Tail(cs))

\* C3: shouldIncludeTestName(q) is true iff methods is empty or the last
\* dot-delimited component of q is a member of methods, whatever the prefix;
\* and the units the Loader makes of a loaded module are exactly the method
\* names so accepted, in the framework's order.
C3_NameDecisionIsLastComponent ==
    /\ \A q \in ProbeNames : shouldIncludeTestName(q) = RefIncludeName(q)
    /\ \A r \in imported :
          shouldIncludeTestFile(r.file) =>
              [i \in 1..Len(UnitsFrom(r.mod)) |-> UnitsFrom(r.mod)[i].name]
                  = RefKeptNames(ModuleClasses[r.mod])

\* a method filter that kept one method of a loaded class and dropped another
C3_Witness ==
    /\ pc = "ready"
    /\ args.method = <<m_ty>>
    /\ \E i \in 1..Len(suite) : suite[i].name = m_ty /\ suite[i].file = p_test_a
    /\ ~\E i \in 1..Len(suite) : suite[i].name = m_tx

(***************************************************************************)
(* C4                                                                      *)
(***************************************************************************)
\* the directories of the subtree of directory k (a key of Tree)
DirsUnder(k) ==
    {d \in DOMAIN Tree : d = k \/ StartsWith(d, k \o <<"/">>)}

\* the files of the subtree of selector g whose name does not begin with
\* '.', each by its directory and its place in that directory's listing
RefFilesUnder(g) ==
    UNION {{[dir |-> d, idx |-> i] :
               i \in {j \in 1..Len(Tree[d].files) : Tree[d].files[j][1] # "."}} :
           d \in DirsUnder(RelPath(g))}

\* the path of such a file, below the selector as it was written
RefPath(g, e) ==
    g \o SubSeq(e.dir, Len(RelPath(g)) + 1, Len(e.dir)) \o <<"/">>
      \o Tree[e.dir].files[e.idx]

\* seg lists the files of directory selector g, each once, in traversal
\* order: a directory's files in listing order and before those of the
\* directories below it
RefDirSegment(g, seg) ==
    /\ Len(seg) = Cardinality(RefFilesUnder(g))
    /\ {seg[i] : i \in 1..Len(seg)} = {RefPath(g, e) : e \in RefFilesUnder(g)}
    /\ \A i, j \in 1..Len(seg) :
          i < j =>
              LET a == CHOOSE e \in RefFilesUnder(g) : RefPath(g, e) = seg[i]
                  b == CHOOSE e \in RefFilesUnder(g) : RefPath(g, e) = seg[j]
              IN  /\ a.dir = b.dir => a.idx < b.idx
                  /\ ~(a.dir # b.dir /\ StartsWith(a.dir, b.dir \o <<"/">>))

RefSegLen(g) == IF IsDir(g) THEN Cardinality(RefFilesUnder(g)) ELSE 1

\* where the segment of the k-th selector starts, less one
RECURSIVE RefOffset(_, _)
RefOffset(gs, k) ==
    IF k <= 1 THEN 0 ELSE RefOffset(gs, k - 1) + RefSegLen(gs[k - 1])

\* C4: expandFilesList turns the selectors, in order, into one flat list:
\* a directory becomes the files of its subtree whose names do not begin with
\* '.', in traversal order; any other selector, a nonexistent path too, stays
\* as it is at its place; duplicates are kept.
C4_ExpansionIsReference ==
    (Expanded /\ argv # <<>>) =>
        /\ Len(args.files) = RefOffset(argv, Len(argv) + 1)
        /\ \A k \in 1..Len(argv) :
              LET seg == SubSeq(args.files, RefOffset(argv, k) + 1,
                                RefOffset(argv, k + 1))
              IN  IF IsDir(argv[k]) THEN RefDirSegment(argv[k], seg)
                  ELSE seg = <<argv[k]>>

\* tests/integration holds test_c.py, .hidden, d.php and sub/test_e.py: given
\* with a nonexistent path it expands to the three visible files and the path
C4_Witness ==
    /\ Expanded
    /\ argv = <<d_tests_integration, n_nosuch>>
    /\ args.files = <<p_test_c, Slash(d_tests_integration, f_d_php),
                      Slash(Slash(d_tests_integration, n_sub), f_test_e_py),
                      n_nosuch>>

(***************************************************************************)
(* C5                                                                      *)
(***************************************************************************)
\* C5: a module for which shouldIncludeTestFile is false is never imported,
\* and no unit of the suite comes from it.
C5_ExcludedModuleNeverImported ==
    Expanded =>
        \A i \in 1..(dpos - 1) :
            ~shouldIncludeTestFile(ModuleQueue[i]) =>
                /\ \A r \in imported : r.mod # ModuleQueue[i]
                /\ UnitsFrom(ModuleQueue[i]) = <<>>

(***************************************************************************)
(* C9                                                                      *)
(***************************************************************************)
\* C9: when at least one file selector was given, every path the predicate
\* accepts is a member of the expanded selector list, an empty expansion
\* included: it accepts nothing then.
C9_SelectionNeverWidens ==
    (Expanded /\ argv # <<>>) =>
        \A p \in ProbePaths :
            shouldIncludeTestFile(p) =>
                \E i \in 1..Len(args.files) : args.files[i] = Fname(p)

(***************************************************************************)
(* What the run leaves behind.                                             *)
(***************************************************************************)
StatusToks == {"PASS", "FAIL", "SKIP"}

\* the status lines printed for a test
LinesOf(test, toks) ==
    Len(SelectSeq(out, LAMBDA l : l.test = test /\ l.tok \in toks))

\* the notifications of those kinds Result has handled for unit i
NotesOf(i, kinds) == Len(SelectSeq(delivered[i], LAMBDA n : n \in kinds))

\* how often a test is in one of the lists of the result
CountIn(list, test) == Len(SelectSeq(list, LAMBDA t : t = test))

\* unit i has reached a terminal state: Passed, Skipped, Failed or Errored
Terminal(i) ==
    NotesOf(i, {"addSuccess", "addSkip", "addFailure", "addError"}) > 0

(***************************************************************************)
(* C1                                                                      *)
(***************************************************************************)
\* C1: after the suite has run, the exit status is 0 if and only if every
\* executed unit ended Passed or Skipped, and nonzero if a unit ended Failed
\* or Errored.
C1_ExitStatusReflectsOutcomes ==
    exitPath = "normal" =>
        (exitStatus = <<0>> <=> (result.failures = <<>> /\ result.errors = <<>>))

(***************************************************************************)
(* C6                                                                      *)
(***************************************************************************)
\* C6: every unit that was started has exactly one status line, never none
\* once it has stopped and never two, and the lines are in the order of the
\* completions.
C6_OneTerminalLinePerUnit ==
    /\ \A i \in 1..Len(delivered) :
          /\ LinesOf(T(i), StatusToks) <= 1
          /\ (i < cur /\ delivered[i] # <<>>) => LinesOf(T(i), StatusToks) = 1
    /\ \A k, l \in 1..Len(out) :
          (k < l /\ out[k].tok \in StatusToks /\ out[l].tok \in StatusToks)
              => out[k].test.idx <= out[l].test.idx

C10_ElapsedFromOwnStart ==
    /\ exitPath # "attribute_error"
    /\ \A k \in 1..Len(out) :
          out[k].tok \in StatusToks =>
              /\ ~out[k].test.holder
              /\ out[k].since = <<out[k].test.idx>>

=============================================================================
